---- MODULE Spec2Model ----
(***************************************************************************)
(* A model of the rope container of src/rope.rs together with the string   *)
(* primitives of src/str.rs it is built on.                                *)
(*                                                                         *)
(* A string (@str) is modelled by its raw byte vector: the bytes of the    *)
(* text followed by one terminator slot (str.rs:14, str.rs:2111-2114).     *)
(* Its length is the length of the vector minus one (str.rs:2565-2567) and *)
(* only the bytes before the terminator slot can be indexed.  Offsets are  *)
(* 0-based as in the source; the byte at offset i is s[i + 1].             *)
(*                                                                         *)
(* An operation that aborts (fail, assert!, an index out of bounds) is     *)
(* modelled by a distinguished result: -1 for a uint, CharFail for a       *)
(* CharRange, NodeFail for a node, RootFail for a rope.                    *)
(***************************************************************************)
EXTENDS Integers, Sequences, FiniteSets, TLC

(***************************************************************************)
(* Bounds of the model.  The two hints of rope.rs (256 characters per      *)
(* leaf, height 16) are tunables the source calls "not a strict value";    *)
(* the model runs them scaled down so that chunking, flattening and        *)
(* rebalancing happen on short texts.                                      *)
(***************************************************************************)
MaxLeafChars == 2

MaxNodeHeight == 2

MaxOps == 2

MaxDeepOps == 4

MaxCmpOps == 3

MaxConcatLen == 4

\* The width of a uint in bits: sums of two uints wrap at 2^UintBits.
UintBits == 6

hint_max_leaf_char_len == MaxLeafChars

hint_max_node_height == MaxNodeHeight

(***************************************************************************)
(* uint helpers (core library, not part of src/).                          *)
(***************************************************************************)
Pow2(n) == 2 ^ n

div_ceil(x, y) == (x + y - 1) \div y

\* The sum of two uints, which wraps.
uint_add(x, y) == (x + y) % Pow2(UintBits)

max(x, y) == IF x >= y THEN x ELSE y

(***************************************************************************)
(* src/str.rs                                                              *)
(***************************************************************************)
len(s) == Len(s) - 1

utf8_char_width(b) ==
    IF b < 128 THEN 1
    ELSE IF b < 192 THEN 0
    ELSE IF b < 224 THEN 2
    ELSE IF b < 240 THEN 3
    ELSE IF b < 248 THEN 4
    ELSE IF b < 252 THEN 5
    ELSE 6

\* TRUE exactly when assert!(is_char_boundary(s, index)) passes: the read
\* s[index] of an index past the length aborts.
is_char_boundary(s, index) ==
    IF index = len(s) THEN TRUE
    ELSE /\ index >= 0
         /\ index < len(s)
         /\ (s[index + 1] < 128 \/ s[index + 1] >= 192)

CharFail == [ch |-> -1, next |-> -1]

\* The loop of char_range_at over the continuation bytes: [val, i] after the
\* loop, or -1 when a read is out of bounds or a byte has no continuation tag.
RECURSIVE char_range_cont(_, _, _, _)
char_range_cont(s, i, end, val) ==
    IF i < end
    THEN IF ~(i < len(s)) THEN -1
         ELSE IF (s[i + 1] \div 64) # 2 THEN -1
         ELSE char_range_cont(s, i + 1, end, val * 64 + (s[i + 1] % 64))
    ELSE val

\* char_range_at once the continuation bytes are read: val is their value
\* (-1 when reading them aborted), to which the bits of b0 are added.
char_range_wide(b0, w, val, next) ==
    IF val = -1 THEN CharFail
    ELSE [ch   |-> val + ((b0 * Pow2(w + 1)) % 256) * Pow2((w - 1) * 6 - w - 1),
          next |-> next]

\* char_range_at once b0 = s[i] and its width w are known.
char_range_from(s, i, b0, w) ==
    IF w = 0 THEN CharFail
    ELSE IF w = 1 THEN [ch |-> b0, next |-> i + 1]
    ELSE char_range_wide(b0, w, char_range_cont(s, i + 1, i + w, 0), i + w)

char_range_at(s, i) ==
    IF ~(i >= 0 /\ i < len(s)) THEN CharFail
    ELSE char_range_from(s, i, s[i + 1], utf8_char_width(s[i + 1]))

RECURSIVE count_chars_loop(_, _, _, _)
count_chars_step(s, next, end, n) ==
    IF next = -1 THEN -1 ELSE count_chars_loop(s, next, end, n + 1)

count_chars_loop(s, i, end, n) ==
    IF i < end THEN count_chars_step(s, char_range_at(s, i).next, end, n)
    ELSE n

count_chars(s, start, end) ==
    IF ~is_char_boundary(s, start) THEN -1
    ELSE IF ~is_char_boundary(s, end) THEN -1
    ELSE count_chars_loop(s, start, end, 0)

RECURSIVE count_bytes_loop(_, _, _)
count_bytes_step(s, next, cnt) ==
    IF next = -1 THEN -1 ELSE count_bytes_loop(s, next, cnt - 1)

count_bytes_loop(s, end, cnt) ==
    IF cnt > 0
    THEN IF ~(end < len(s)) THEN -1
         ELSE count_bytes_step(s, char_range_at(s, end).next, cnt)
    ELSE end

count_bytes_result(start, end) == IF end = -1 THEN -1 ELSE end - start

count_bytes(s, start, n) ==
    IF ~is_char_boundary(s, start) THEN -1
    ELSE count_bytes_result(start, count_bytes_loop(s, start, n))

(***************************************************************************)
(* src/rope.rs, mod node: the data model.                                  *)
(*   leaf   = [tag, byte_offset, byte_len, char_len, content]              *)
(*   concat = [tag, left, right, char_len, byte_len, height]               *)
(*   root   = empty | content(node)                                        *)
(***************************************************************************)
mk_leaf(byte_offset, byte_len, char_len, content) ==
    [byte_offset |-> byte_offset, byte_len |-> byte_len, char_len |-> char_len,
     content |-> content, tag |-> "leaf"]

NodeFail == [tag |-> "fail"]

NodeNone == [tag |-> "none"]

VecFail == <<NodeFail>>

StrFail == <<-1>>

empty == [tag |-> "empty"]

content(node) == [tag |-> "content", node |-> node]

RootFail == [tag |-> "fail"]

node_byte_len(node) == node.byte_len

node_char_len(node) == node.char_len

node_height(node) == IF node.tag = "leaf" THEN 0 ELSE node.height

\* concat2 with the two children in each other's place.
concat2_swapped(left, right) ==
    [byte_len |-> node_byte_len(left) + node_byte_len(right),
     char_len |-> node_char_len(left) + node_char_len(right),
     tag      |-> "concat",
     height   |-> max(node_height(left), node_height(right)) + 1,
     left     |-> right,
     right    |-> left]

\* concat2 caching the height of the higher child as the height of the
\* Concat.
concat2_same_level(left, right) ==
    [byte_len |-> node_byte_len(left) + node_byte_len(right),
     char_len |-> node_char_len(left) + node_char_len(right),
     tag      |-> "concat",
     height   |-> max(node_height(left), node_height(right)),
     left     |-> left,
     right    |-> right]

concat2(left, right) ==
    [byte_len |-> node_byte_len(left) + node_byte_len(right),
     char_len |-> node_char_len(left) + node_char_len(right),
     tag      |-> "concat",
     height   |-> max(node_height(left), node_height(right)) + 1,
     left     |-> left,
     right    |-> right]

(***************************************************************************)
(* node::of_substr_unsafer: one leaf, or chunks folded pairwise.           *)
(***************************************************************************)
RECURSIVE chunk_loop(_, _, _, _, _, _)
\* chunk_store without the advance of offset past the chunk stored.
chunk_store_same_offset(str, nodes, i, leaves, offset, first_leaf_char_len, chunk_char_len, chunk_byte_len) ==
    IF chunk_byte_len = -1 THEN VecFail
    ELSE chunk_loop(str,
                    [nodes EXCEPT ![i + 1] =
                        mk_leaf(offset, chunk_byte_len, chunk_char_len, str)],
                    i + 1, leaves, offset, first_leaf_char_len)

chunk_store(str, nodes, i, leaves, offset, first_leaf_char_len, chunk_char_len, chunk_byte_len) ==
    IF chunk_byte_len = -1 THEN VecFail
    ELSE chunk_loop(str,
                    [nodes EXCEPT ![i + 1] =
                        mk_leaf(offset, chunk_byte_len, chunk_char_len, str)],
                    i + 1, leaves, offset + chunk_byte_len, first_leaf_char_len)

chunk_sized(str, nodes, i, leaves, offset, first_leaf_char_len, chunk_char_len) ==
    chunk_store(str, nodes, i, leaves, offset, first_leaf_char_len,
                chunk_char_len, count_bytes(str, offset, chunk_char_len))

chunk_loop(str, nodes, i, leaves, offset, first_leaf_char_len) ==
    IF i < leaves
    THEN chunk_sized(str, nodes, i, leaves, offset, first_leaf_char_len,
                     IF i = 0 THEN first_leaf_char_len ELSE hint_max_leaf_char_len)
    ELSE nodes

RECURSIVE collapse_pass(_, _, _)
collapse_pass(nodes, i, leaves) ==
    IF i < leaves - 1
    THEN collapse_pass([nodes EXCEPT ![(i \div 2) + 1] =
                            concat2(nodes[i + 1], nodes[i + 2])],
                       i + 2, leaves)
    ELSE IF i = leaves - 1
    THEN [nodes EXCEPT ![(i \div 2) + 1] = nodes[i + 1]]
    ELSE nodes

RECURSIVE collapse(_, _)
collapse(nodes, leaves) ==
    IF leaves > 1
    THEN collapse(collapse_pass(nodes, 0, leaves), div_ceil(leaves, 2))
    ELSE nodes[1]

collapse_chunks(nodes, leaves) ==
    IF nodes = VecFail THEN NodeFail ELSE collapse(nodes, leaves)

\* The else branch of of_substr_unsafer: leaves chunks, then the fold.
of_substr_chunked(str, byte_start, candidate, leaves, first_leaf_char_len) ==
    collapse_chunks(chunk_loop(str, [k \in 1..leaves |-> candidate], 0, leaves,
                               byte_start, first_leaf_char_len),
                    leaves)

of_substr_unsafer(str, byte_start, byte_len, char_len) ==
    IF ~(uint_add(byte_start, byte_len) <= len(str)) THEN NodeFail
    ELSE IF char_len <= hint_max_leaf_char_len
    THEN mk_leaf(byte_start, byte_len, char_len, str)
    ELSE of_substr_chunked(str, byte_start,
                           mk_leaf(byte_start, byte_len, char_len, str),
                           div_ceil(char_len, hint_max_leaf_char_len),
                           IF char_len % hint_max_leaf_char_len = 0
                           THEN hint_max_leaf_char_len
                           ELSE char_len % hint_max_leaf_char_len)

of_substr_counted(str, byte_start, byte_len, char_len) ==
    IF char_len = -1 THEN NodeFail
    ELSE of_substr_unsafer(str, byte_start, byte_len, char_len)

node_of_substr(str, byte_start, byte_len) ==
    of_substr_counted(str, byte_start, byte_len,
                      count_chars(str, byte_start, byte_len))

node_of_str(str) == node_of_substr(str, 0, len(str))

(***************************************************************************)
(* node::leaf_iterator.  An iterator is a value [stack, stackpos]; next    *)
(* returns the advanced iterator with the leaf found (NodeNone when there  *)
(* is none, NodeFail when a stack access is out of bounds).                *)
(***************************************************************************)
leaf_iterator_empty == [stack |-> <<>>, stackpos |-> -1]

\* start with one slot fewer than the height asks for.
leaf_iterator_start_short(node) ==
    [stack |-> [k \in 1..node_height(node) |-> node], stackpos |-> 0]

leaf_iterator_start(node) ==
    [stack |-> [k \in 1..(node_height(node) + 1) |-> node], stackpos |-> 0]

RECURSIVE leaf_iterator_loop(_)
\* The turn of the loop with the left child pushed below the right one.
leaf_iterator_visit_left_first(it, current, pos) ==
    IF current.tag = "concat"
    THEN IF ~(pos + 2 < Len(it.stack))
         THEN [leaf |-> NodeFail, it |-> it]
         ELSE leaf_iterator_loop(
                [stack    |-> [it.stack EXCEPT ![pos + 2] = current.left,
                                               ![pos + 3] = current.right],
                 stackpos |-> pos + 2])
    ELSE [leaf |-> current, it |-> [it EXCEPT !.stackpos = pos]]

\* One turn of the loop of next: current was read and stackpos decremented
\* to pos.
leaf_iterator_visit(it, current, pos) ==
    IF current.tag = "concat"
    THEN IF ~(pos + 2 < Len(it.stack))
         THEN [leaf |-> NodeFail, it |-> it]
         ELSE leaf_iterator_loop(
                [stack    |-> [it.stack EXCEPT ![pos + 2] = current.right,
                                               ![pos + 3] = current.left],
                 stackpos |-> pos + 2])
    ELSE [leaf |-> current, it |-> [it EXCEPT !.stackpos = pos]]

leaf_iterator_loop(it) ==
    IF ~(it.stackpos >= 0 /\ it.stackpos < Len(it.stack))
    THEN [leaf |-> NodeFail, it |-> it]
    ELSE leaf_iterator_visit(it, it.stack[it.stackpos + 1], it.stackpos - 1)

leaf_iterator_next(it) ==
    IF it.stackpos < 0 THEN [leaf |-> NodeNone, it |-> it]
    ELSE leaf_iterator_loop(it)

(***************************************************************************)
(* node::serialize_node.  buf has byte_len(node) zero bytes; for every     *)
(* leaf the copy loop runs i from x.byte_offset while i < x.byte_len,      *)
(* reading the leaf's buffer as a byte vector (terminator slot included).  *)
(* The vector is then reinterpreted as a string without a terminator being *)
(* pushed: the string is the vector itself, so its last byte sits in the   *)
(* terminator slot and its length is byte_len(node) - 1.                   *)
(***************************************************************************)
RECURSIVE serialize_copy(_, _, _, _)
serialize_copy(buf, offset, x, i) ==
    IF i < x.byte_len
    THEN IF ~(offset < Len(buf)) \/ ~(i < Len(x.content))
         THEN [offset |-> offset, buf |-> StrFail]
         ELSE serialize_copy([buf EXCEPT ![offset + 1] = x.content[i + 1]],
                             offset + 1, x, i + 1)
    ELSE [offset |-> offset, buf |-> buf]

RECURSIVE serialize_loop(_, _, _)
\* After the copy c of one leaf: on with the iterator it.
serialize_copied(it, c) ==
    IF c.buf = StrFail THEN StrFail ELSE serialize_loop(it, c.buf, c.offset)

\* One turn of the loop: n is what leaf_iterator::next returned.
serialize_leaf(n, buf, offset) ==
    IF n.leaf.tag = "none" THEN buf
    ELSE IF n.leaf.tag = "fail" THEN StrFail
    ELSE serialize_copied(n.it,
                          serialize_copy(buf, offset, n.leaf, n.leaf.byte_offset))

serialize_loop(it, buf, offset) ==
    serialize_leaf(leaf_iterator_next(it), buf, offset)

serialize_node(node) ==
    serialize_loop(leaf_iterator_start(node),
                   [k \in 1..node_byte_len(node) |-> 0], 0)

flatten_leaf(node, str) ==
    IF str = StrFail THEN NodeFail
    ELSE mk_leaf(0, node.byte_len, node.char_len, str)

flatten(node) ==
    IF node.tag = "leaf" THEN node
    ELSE flatten_leaf(node, serialize_node(node))

(***************************************************************************)
(* node::tree_from_forest_destructive                                      *)
(***************************************************************************)
\* rope.rs:777-786: a node that is too high is adopted again from its
\* serialized text str.
forest_adopt(str, byte_len, char_len) ==
    IF str = StrFail \/ Len(str) = 0 THEN NodeFail
    ELSE of_substr_unsafer(str, 0, byte_len, char_len)

forest_lower(node, node_len) ==
    IF node = NodeFail THEN NodeFail
    ELSE IF node_height(node) >= hint_max_node_height
    THEN forest_adopt(serialize_node(node), node_byte_len(node), node_len)
    ELSE node

\* One of the two operands of the fold: flattened when the pair is longer
\* than a leaf and the operand is not (rope.rs:767-776), then lowered.
forest_operand(node, other_len) ==
    forest_lower(IF node_char_len(node) + other_len > hint_max_leaf_char_len
                    /\ node_char_len(node) <= hint_max_leaf_char_len
                 THEN flatten(node)
                 ELSE node,
                 node_char_len(node))

forest_store(forest, i, left, right) ==
    IF left = NodeFail \/ right = NodeFail THEN VecFail
    ELSE [forest EXCEPT ![(i \div 2) + 1] = concat2(left, right)]

RECURSIVE forest_pass(_, _, _)
forest_pass(forest, i, flen) ==
    IF forest = VecFail THEN VecFail
    ELSE IF i < flen - 1
    THEN forest_pass(
           forest_store(forest, i,
                        forest_operand(forest[i + 1], node_char_len(forest[i + 2])),
                        forest_operand(forest[i + 2], node_char_len(forest[i + 1]))),
           i + 2, flen)
    ELSE IF i = flen - 1
    THEN [forest EXCEPT ![(i \div 2) + 1] = forest[i + 1]]
    ELSE forest

RECURSIVE forest_fold(_, _)
forest_fold(forest, flen) ==
    IF forest = VecFail THEN NodeFail
    ELSE IF flen > 1
    THEN forest_fold(forest_pass(forest, 0, flen), div_ceil(flen, 2))
    ELSE forest[1]

tree_from_forest_destructive(forest) ==
    IF forest = VecFail \/ Len(forest) = 0 THEN NodeFail
    ELSE forest_fold(forest, Len(forest))

(***************************************************************************)
(* node::bal                                                               *)
(***************************************************************************)
RECURSIVE gather_leaves(_, _)
gather_leaf(n, forest) ==
    IF n.leaf.tag = "none" THEN forest
    ELSE IF n.leaf.tag = "fail" THEN VecFail
    ELSE gather_leaves(n.it, Append(forest, n.leaf))

gather_leaves(it, forest) == gather_leaf(leaf_iterator_next(it), forest)

\* node::bal rebuilding the tree whatever the height of the node.
node_bal_always(node) ==
    tree_from_forest_destructive(gather_leaves(leaf_iterator_start(node), <<>>))

node_bal(node) ==
    IF node_height(node) < hint_max_node_height THEN NodeNone
    ELSE tree_from_forest_destructive(
           gather_leaves(leaf_iterator_start(node), <<>>))

(***************************************************************************)
(* node::sub_bytes and node::sub_chars                                     *)
(***************************************************************************)
sub_leaf(byte_offset, byte_len, char_len, str) ==
    IF byte_len = -1 \/ char_len = -1 THEN NodeFail
    ELSE mk_leaf(byte_offset, byte_len, char_len, str)

sub_concat2(left_result, right_result) ==
    IF left_result = NodeFail \/ right_result = NodeFail THEN NodeFail
    ELSE concat2(left_result, right_result)

RECURSIVE node_sub_bytes(_, _, _)
\* The concat arm of sub_bytes, left_len being byte_len(x.left).
sub_bytes_concat(node, byte_offset, byte_len, left_len) ==
    IF byte_offset <= left_len
    THEN IF byte_offset + byte_len <= left_len
         THEN node_sub_bytes(node.left, byte_offset, byte_len)
         ELSE sub_concat2(node_sub_bytes(node.left, byte_offset, left_len),
                          node_sub_bytes(node.right, 0, left_len - byte_offset))
    ELSE node_sub_bytes(node.right, byte_offset - left_len, byte_len)

node_sub_bytes(node, byte_offset, byte_len) ==
    IF byte_offset = 0 /\ byte_len = node_byte_len(node) THEN node
    ELSE IF node.tag = "leaf"
    THEN sub_leaf(byte_offset, byte_len,
                  count_chars(node.content, byte_offset, byte_len), node.content)
    ELSE sub_bytes_concat(node, byte_offset, byte_len, node_byte_len(node.left))

RECURSIVE node_sub_chars(_, _, _)
\* The leaf arm of sub_chars once byte_offset is counted.
sub_chars_leaf(x, byte_offset, char_len) ==
    IF byte_offset = -1 THEN NodeFail
    ELSE sub_leaf(byte_offset, count_bytes(x.content, byte_offset, char_len),
                  char_len, x.content)

\* The concat arm of sub_chars, left_len being char_len(x.left).
sub_chars_concat(node, char_offset, char_len, left_len) ==
    IF char_offset <= left_len
    THEN IF char_offset + char_len <= left_len
         THEN node_sub_chars(node.left, char_offset, char_len)
         ELSE sub_concat2(node_sub_chars(node.left, char_offset, left_len),
                          node_sub_chars(node.right, 0, left_len - char_offset))
    ELSE node_sub_chars(node.right, char_offset - left_len, char_len)

node_sub_chars(node, char_offset, char_len) ==
    IF char_offset = 0 /\ char_len = node.char_len THEN node
    ELSE IF node.tag = "leaf"
    THEN sub_chars_leaf(node, count_bytes(node.content, 0, char_offset), char_len)
    ELSE sub_chars_concat(node, char_offset, char_len, node_char_len(node.left))

(***************************************************************************)
(* node::char_iterator.  An iterator is a value                            *)
(* [leaf_iterator, leaf, leaf_byte_pos]; each step returns the advanced    *)
(* iterator with its result.  An option<char> is the code point, -1 for    *)
(* none, -2 when the step aborts.                                          *)
(***************************************************************************)
char_iterator_start(node) ==
    [leaf |-> NodeNone, leaf_iterator |-> leaf_iterator_start(node),
     leaf_byte_pos |-> 0]

char_iterator_empty ==
    [leaf |-> NodeNone, leaf_iterator |-> leaf_iterator_empty, leaf_byte_pos |-> 0]

\* get_current_or_next_leaf when it.leaf is none and leaf_iterator::next
\* has returned next.
take_next_leaf(it, next) ==
    IF next.leaf.tag = "none" \/ next.leaf.tag = "fail"
    THEN [leaf |-> next.leaf, it |-> [it EXCEPT !.leaf_iterator = next.it]]
    ELSE [leaf |-> next.leaf,
          it   |-> [leaf |-> next.leaf, leaf_iterator |-> next.it,
                    leaf_byte_pos |-> 0]]

get_current_or_next_leaf(it) ==
    IF it.leaf.tag # "none" THEN [leaf |-> it.leaf, it |-> it]
    ELSE take_next_leaf(it, leaf_iterator_next(it.leaf_iterator))

\* take_char keeping the position in the buffer as the position in the
\* leaf.
take_char_in_buffer(it, r) ==
    IF r = CharFail THEN [ch |-> -2, it |-> it]
    ELSE [ch |-> r.ch, it |-> [it EXCEPT !.leaf_byte_pos = r.next]]

\* get_next_char_in_leaf once char_range_at has returned r.
take_char(it, r) ==
    IF r = CharFail THEN [ch |-> -2, it |-> it]
    ELSE [ch |-> r.ch,
          it |-> [it EXCEPT !.leaf_byte_pos = r.next - it.leaf.byte_offset]]

get_next_char_in_leaf(it) ==
    IF it.leaf.tag = "none" THEN [ch |-> -1, it |-> it]
    ELSE IF it.leaf_byte_pos >= it.leaf.byte_len
    THEN [ch |-> -1, it |-> [it EXCEPT !.leaf = NodeNone]]
    ELSE take_char(it, char_range_at(it.leaf.content,
                                     it.leaf_byte_pos + it.leaf.byte_offset))

RECURSIVE char_iterator_next(_)
char_iterator_char(next_char) ==
    IF next_char.ch = -1 THEN char_iterator_next(next_char.it) ELSE next_char

char_iterator_leaf(l) ==
    IF l.leaf.tag = "none" THEN [ch |-> -1, it |-> l.it]
    ELSE IF l.leaf.tag = "fail" THEN [ch |-> -2, it |-> l.it]
    ELSE char_iterator_char(get_next_char_in_leaf(l.it))

char_iterator_next(it) == char_iterator_leaf(get_current_or_next_leaf(it))

(***************************************************************************)
(* node::cmp.  The result is [tag |-> "int", val |-> n], or CmpFail when   *)
(* one of the iterators aborts.                                            *)
(***************************************************************************)
CmpFail == [tag |-> "fail"]

IntRes(n) == [val |-> n, tag |-> "int"]

char_cmp(a, b) == IF a < b THEN -1 ELSE IF a > b THEN 1 ELSE 0

RECURSIVE node_cmp_loop(_, _)
cmp_chars(na, nb, result) ==
    IF result = 0 THEN node_cmp_loop(na.it, nb.it) ELSE IntRes(result)

\* One turn of the loop of cmp on the results na and nb of the two next.
cmp_step(na, nb) ==
    IF na.ch = -2 \/ nb.ch = -2 THEN CmpFail
    ELSE IF na.ch = -1 /\ nb.ch = -1 THEN IntRes(0)
    ELSE IF na.ch # -1 /\ nb.ch # -1 THEN cmp_chars(na, nb, char_cmp(na.ch, nb.ch))
    ELSE IF na.ch # -1 THEN IntRes(1)
    ELSE IntRes(-1)

node_cmp_loop(ita, itb) ==
    cmp_step(char_iterator_next(ita), char_iterator_next(itb))

node_cmp(a, b) == node_cmp_loop(char_iterator_start(a), char_iterator_start(b))

(***************************************************************************)
(* src/rope.rs, the public functions on ropes.                             *)
(***************************************************************************)
\* node::content(n) of a node n returned, RootFail when the call aborted.
content_of(n) == IF n = NodeFail THEN RootFail ELSE content(n)

\* of_substr returning the Empty rope for a range past the string.
of_substr_lenient(str, byte_offset, byte_len) ==
    IF byte_len = 0 THEN empty
    ELSE IF uint_add(byte_offset, byte_len) > len(str) THEN empty
    ELSE content_of(node_of_substr(str, byte_offset, byte_len))

of_substr(str, byte_offset, byte_len) ==
    IF byte_len = 0 THEN empty
    ELSE IF uint_add(byte_offset, byte_len) > len(str) THEN RootFail
    ELSE content_of(node_of_substr(str, byte_offset, byte_len))

of_str(str) == of_substr(str, 0, len(str))

\* append_rope allocating a Concat whenever the left rope is Content.
append_rope_right_only(left, right) ==
    IF left.tag = "empty" THEN right
    ELSE IF right.tag = "empty" THEN right
    ELSE content(concat2(left.node, right.node))

append_rope(left, right) ==
    IF left.tag = "empty" THEN right
    ELSE IF right.tag = "empty" THEN left
    ELSE content(concat2(left.node, right.node))

\* append_rope when one of its arguments may be a call that aborted.
append_result(left, right) ==
    IF left = RootFail \/ right = RootFail THEN RootFail
    ELSE append_rope(left, right)

append_str(rope, str) == append_result(rope, of_str(str))

prepend_str(rope, str) == append_result(of_str(str), rope)

\* concat with the odd rope left over dropped from the next round.
concat_len_halved(vlen) == vlen \div 2

\* concat: the length of the working vector after one round of merging.
concat_len(vlen) == IF vlen % 2 # 0 THEN vlen \div 2 + 1 ELSE vlen \div 2

\* concat, the inner loop: ropes[i] = append_rope(ropes[2i], ropes[2i+1])
\* for i from 0 below half, written in place.
RECURSIVE concat_pairs(_, _, _)
concat_pairs(ropes, i, half) ==
    IF i < half
    THEN concat_pairs([ropes EXCEPT ![i + 1] = append_rope(ropes[2 * i + 1],
                                                          ropes[2 * i + 2])],
                      i + 1, half)
    ELSE ropes

\* concat: the last rope of an odd vector moves to the slot after the pairs.
concat_leftover(ropes, vlen) ==
    IF vlen % 2 # 0 THEN [ropes EXCEPT ![vlen \div 2 + 1] = ropes[vlen]]
    ELSE ropes

RECURSIVE concat_loop(_, _)
concat_loop(ropes, vlen) ==
    IF vlen > 1
    THEN concat_loop(concat_leftover(concat_pairs(ropes, 0, vlen \div 2), vlen),
                     concat_len(vlen))
    ELSE ropes[1]

concat(v) == IF Len(v) = 0 THEN empty ELSE concat_loop(v, Len(v))

bal_result(rope, y) ==
    IF y = NodeNone THEN rope
    ELSE IF y = NodeFail THEN RootFail
    ELSE content(y)

bal(rope) ==
    IF rope.tag = "empty" THEN rope
    ELSE bal_result(rope, node_bal(rope.node))

\* sub_chars without the early return for an empty range.
sub_chars_descending(rope, char_offset, char_len) ==
    IF rope.tag = "empty" THEN RootFail
    ELSE IF char_len > node_char_len(rope.node) THEN RootFail
    ELSE content_of(node_sub_chars(rope.node, char_offset, char_len))

sub_chars(rope, char_offset, char_len) ==
    IF char_len = 0 THEN empty
    ELSE IF rope.tag = "empty" THEN RootFail
    ELSE IF char_len > node_char_len(rope.node) THEN RootFail
    ELSE content_of(node_sub_chars(rope.node, char_offset, char_len))

sub_bytes(rope, byte_offset, byte_len) ==
    IF byte_len = 0 THEN empty
    ELSE IF rope.tag = "empty" THEN RootFail
    ELSE IF byte_len > node_byte_len(rope.node) THEN RootFail
    ELSE content_of(node_sub_bytes(rope.node, byte_offset, byte_len))

cmp(left, right) ==
    IF left.tag = "empty" /\ right.tag = "empty" THEN IntRes(0)
    ELSE IF left.tag = "empty" THEN IntRes(-1)
    ELSE IF right.tag = "empty" THEN IntRes(1)
    ELSE node_cmp(left.node, right.node)

\* eq, le, lt, ge, gt: the comparison of cmp's result with 0 (FALSE stands
\* also for a cmp that aborts; the properties test cmp itself for that).
IsNeg(c) == c.tag = "int" /\ c.val < 0

IsZero(c) == c.tag = "int" /\ c.val = 0

IsPos(c) == c.tag = "int" /\ c.val > 0

IsNonPos(c) == c.tag = "int" /\ c.val <= 0

IsNonNeg(c) == c.tag = "int" /\ c.val >= 0

eq(left, right) == IsZero(cmp(left, right))

le(left, right) == IsNonPos(cmp(left, right))

lt(left, right) == IsNeg(cmp(left, right))

ge(left, right) == IsNonNeg(cmp(left, right))

gt(left, right) == IsPos(cmp(left, right))

iterator_leaf_start(rope) ==
    IF rope.tag = "empty" THEN leaf_iterator_empty
    ELSE leaf_iterator_start(rope.node)

iterator_char_start(rope) ==
    IF rope.tag = "empty" THEN char_iterator_empty
    ELSE char_iterator_start(rope.node)

height(rope) == IF rope.tag = "empty" THEN 0 ELSE node_height(rope.node)

char_len(rope) == IF rope.tag = "empty" THEN 0 ELSE node_char_len(rope.node)

byte_len(rope) == IF rope.tag = "empty" THEN 0 ELSE node_byte_len(rope.node)

(***************************************************************************)
(* src/rope.rs, mod tests: rope_to_string, the flattened text of a rope.   *)
(* str::slice asserts that both ends are character boundaries of the       *)
(* buffer.  The result is the text as a string (terminator slot included), *)
(* or StrFail when a slice aborts.                                         *)
(***************************************************************************)
RECURSIVE rope_to_string_aux(_, _)
rope_to_string_aux(str, node) ==
    IF str = StrFail THEN StrFail
    ELSE IF node.tag = "leaf"
    THEN IF /\ is_char_boundary(node.content, node.byte_offset)
            /\ is_char_boundary(node.content, node.byte_offset + node.byte_len)
         THEN str \o SubSeq(node.content, node.byte_offset + 1,
                            node.byte_offset + node.byte_len)
         ELSE StrFail
    ELSE rope_to_string_aux(rope_to_string_aux(str, node.left), node.right)

terminated(text) == IF text = StrFail THEN StrFail ELSE Append(text, 0)

rope_to_string(r) ==
    IF r.tag = "empty" THEN <<0>>
    ELSE terminated(rope_to_string_aux(<<>>, r.node))

(***************************************************************************)
(* The texts the model adopts.  A text is written as a sequence of code    *)
(* points and stored as a string: its UTF-8 bytes and the terminator.      *)
(***************************************************************************)
utf8_encode(c) ==
    IF c < 128 THEN <<c>>
    ELSE IF c < 2048 THEN <<192 + (c \div 64), 128 + (c % 64)>>
    ELSE <<224 + (c \div 4096), 128 + ((c \div 64) % 64), 128 + (c % 64)>>

RECURSIVE utf8_bytes(_)
utf8_bytes(cs) ==
    IF cs = <<>> THEN <<>> ELSE utf8_encode(Head(cs)) \o utf8_bytes(Tail(cs))

Str(cs) == Append(utf8_bytes(cs), 0)

\* 'a', U+00E9 (2 bytes), 'b', U+20AC (3 bytes), repeated
Pattern(n) == [k \in 1..n |-> <<97, 233, 98, 8364>>[((k - 1) % 4) + 1]]

\* The empty text, texts of one leaf, and texts long enough to be split into
\* two and into three leaves.
Texts ==
    {<<>>, <<97>>, <<233>>, <<97, 233>>,
     Pattern(hint_max_leaf_char_len + 1),
     Pattern(2 * hint_max_leaf_char_len + 1)}

Strings == {Str(cs) : cs \in Texts}

\* The code points of a text given as a string, decoded with char_range_at.
RECURSIVE chars_of_from(_, _)
chars_of_next(s, r) ==
    IF r = CharFail THEN <<-1>> ELSE <<r.ch>> \o chars_of_from(s, r.next)

chars_of_from(s, i) ==
    IF i >= len(s) THEN <<>> ELSE chars_of_next(s, char_range_at(s, i))

chars_of(s) == chars_of_from(s, 0)

\* The byte ranges of a string that start and end on character boundaries.
Ranges(s) ==
    {<<o, n>> \in (0..len(s)) \X (0..len(s)) :
        /\ o + n <= len(s)
        /\ is_char_boundary(s, o)
        /\ is_char_boundary(s, o + n)}

(***************************************************************************)
(* src/rope.rs, the public functions that read a rope or take characters.  *)
(***************************************************************************)
\* str::from_chars([char]) is the UTF-8 encoding of the character.
append_char(rope, char) == append_str(rope, Str(<<char>>))

\* str::char_at: the character decoded at byte i, -1 when that aborts.
str_char_at(s, i) == char_range_at(s, i).ch

RECURSIVE node_char_at(_, _)
node_char_at(node, pos) ==
    IF node.tag = "leaf" THEN str_char_at(node.content, pos)
    ELSE IF node_char_len(node.left) > pos THEN node_char_at(node.left, pos)
    ELSE node_char_at(node.right, pos - node_char_len(node.left))

\* char_at: a code point, -1 when the call aborted.
char_at(rope, pos) ==
    IF rope.tag = "empty" THEN -1 ELSE node_char_at(rope.node, pos)

\* The callback handed to loop_chars, as a value: calls are the characters
\* it has been called with, quota the number of calls it still answers
\* with true, ret its last answer ("fail" when the traversal aborted).
call_it(st, ch) ==
    [calls |-> Append(st.calls, ch), quota |-> st.quota - 1,
     ret |-> IF st.quota > 0 THEN "true" ELSE "false"]

\* str::all_between: the loop stops when the callback has answered false.
RECURSIVE all_between_loop(_, _, _, _)
all_between_step(s, r, end, st) ==
    IF r = CharFail THEN [st EXCEPT !.ret = "fail"]
    ELSE all_between_loop(s, r.next, end, call_it(st, r.ch))

all_between_loop(s, i, end, st) ==
    IF st.ret = "false" THEN st
    ELSE IF i < end THEN all_between_step(s, char_range_at(s, i), end, st)
    ELSE st

all_between(s, start, end, st) ==
    IF ~is_char_boundary(s, start) THEN [st EXCEPT !.ret = "fail"]
    ELSE all_between_loop(s, start, end, st)

\* node::loop_chars: node::loop_leaves with the block that runs
\* str::all_between on a leaf; the right child of a Concat is visited only
\* when the traversal of the left one returned true.
RECURSIVE node_loop_chars(_, _)
node_loop_chars(node, st) ==
    IF st.ret # "true" THEN st
    ELSE IF node.tag = "leaf"
    THEN all_between(node.content, node.byte_offset, node.byte_len, st)
    ELSE node_loop_chars(node.right, node_loop_chars(node.left, st))

loop_chars(rope, st) ==
    IF rope.tag = "empty" THEN st ELSE node_loop_chars(rope.node, st)

(***************************************************************************)
(* The state machine.  A client holds two ropes: ra, the rope obtained     *)
(* last, and rb, the one obtained before it.  Every step calls one public  *)
(* function of rope.rs on them and on texts of Strings; a rope returned    *)
(* becomes ra.  Ropes are immutable values, so a call changes nothing      *)
(* else.  last records the call: its name, its arguments and what it       *)
(* returned (RootFail or CmpFail when it aborted).  nops counts the calls  *)
(* that return a rope and is capped by the budget of the specification.    *)
(*                                                                         *)
(* cit is a char iterator of the client with its bookkeeping: status       *)
(* ("idle" before start, then "running", "done" once next has returned     *)
(* none, "failed" when next aborted), src the rope it was started on, it   *)
(* the iterator value, out the characters next has returned so far.        *)
(* lit is a leaf iterator of the client, kept the same way: out is the     *)
(* leaves next has returned so far, and late tells whether next has been   *)
(* called again after it returned none.                                    *)
(***************************************************************************)
VARIABLES ra, rb, nops, last, cit, lit

vars == <<ra, rb, nops, last, cit, lit>>

Idle == [status |-> "idle"]

Init ==
    /\ ra = empty
    /\ rb = empty
    /\ nops = 0
    /\ last = [op |-> "none"]
    /\ cit = Idle
    /\ lit = Idle

\* The calls that return no rope.  Ropes are immutable, so no later call
\* depends on one of them: a run ends with it.
Observations ==
    {"cmp", "append3", "concat", "char_at", "of_substr_any", "sub_chars_any",
     "sub_bytes_any", "loop_chars", "flatten"}

Building == cit = Idle /\ lit = Idle /\ last.op \notin Observations

\* A call that returns a rope: res becomes ra, unless the call aborted, and
\* last is the call with what it returned.
Return(call, res, budget) ==
    /\ Building
    /\ nops < budget
    /\ nops' = nops + 1
    /\ IF res = RootFail
       THEN UNCHANGED <<ra, rb>>
       ELSE ra' = res /\ rb' = ra
    /\ last' = [call EXCEPT !.res = res]
    /\ UNCHANGED <<cit, lit>>

\* A call that returns no rope.
Observe(call, res) ==
    /\ Building
    /\ last' = [call EXCEPT !.res = res]
    /\ UNCHANGED <<ra, rb, nops, cit, lit>>

Held == {ra, rb}

OfStr(budget) ==
    \E s \in Strings :
        Return([s |-> s, op |-> "of_str", res |-> empty], of_str(s), budget)

OfSubstr(budget) ==
    \E s \in Strings : \E rg \in Ranges(s) :
        Return([n |-> rg[2], s |-> s, op |-> "of_substr", res |-> empty,
                off |-> rg[1]],
               of_substr(s, rg[1], rg[2]), budget)

AppendRope(budget) ==
    \E x \in Held, y \in Held :
        Return([x |-> x, y |-> y, op |-> "append_rope", res |-> empty],
               append_rope(x, y), budget)

AppendStr(budget) ==
    \E s \in Strings :
        Return([x |-> ra, s |-> s, op |-> "append_str", res |-> empty],
               append_str(ra, s), budget)

PrependStr(budget) ==
    \E s \in Strings :
        Return([x |-> ra, s |-> s, op |-> "prepend_str", res |-> empty],
               prepend_str(ra, s), budget)

SubChars(budget) ==
    \E o \in 0..char_len(ra) : \E n \in 0..(char_len(ra) - o) :
        Return([n |-> n, x |-> ra, op |-> "sub_chars", res |-> empty, off |-> o],
               sub_chars(ra, o, n), budget)

\* The byte ranges offered are those on character boundaries of the text of
\* ra; a rope whose text cannot be read has none.
SubBytes(budget) ==
    /\ rope_to_string(ra) # StrFail
    /\ \E rg \in Ranges(rope_to_string(ra)) :
        Return([n |-> rg[2], x |-> ra, op |-> "sub_bytes", res |-> empty,
                off |-> rg[1]],
               sub_bytes(ra, rg[1], rg[2]), budget)

Bal(budget) ==
    Return([x |-> ra, op |-> "bal", res |-> empty], bal(ra), budget)

Cmp ==
    \E x \in Held, y \in Held :
        Observe([x |-> x, y |-> y, op |-> "cmp", res |-> empty], cmp(x, y))

\* append_rope applied twice, in both groupings: res is
\* <<append_rope(append_rope(a, b), c), append_rope(a, append_rope(b, c))>>.
Append3 ==
    \E a \in Held \cup {empty}, b \in Held \cup {empty}, c \in Held \cup {empty} :
        Observe([b |-> b, c |-> c, a |-> a, op |-> "append3", res |-> empty],
                <<append_rope(append_rope(a, b), c),
                  append_rope(a, append_rope(b, c))>>)

\* iterator::char::start on a rope held, then node::char_iterator::next,
\* one call per step; next may be called again after it has returned none.
CharIterStart ==
    \E x \in Held :
        /\ Building
        /\ cit' = [it |-> iterator_char_start(x), status |-> "running",
                   src |-> x, out |-> <<>>]
        /\ UNCHANGED <<ra, rb, nops, last, lit>>

\* The iterator after a call of next that returned r.
Stepped(r) ==
    [it     |-> r.it,
     status |-> IF r.ch = -2 THEN "failed"
                ELSE IF r.ch = -1 THEN "done"
                ELSE "running",
     src    |-> cit.src,
     out    |-> IF r.ch >= 0 THEN Append(cit.out, r.ch) ELSE cit.out]

CharIterNext ==
    /\ cit.status \in {"running", "done"}
    /\ cit' = Stepped(char_iterator_next(cit.it))
    /\ UNCHANGED <<ra, rb, nops, last, lit>>

\* iterator::leaf::start on a rope held, then iterator::leaf::next, one
\* call per step; next may be called again after it has returned none.
LeafIterStart ==
    \E x \in Held :
        /\ Building
        /\ lit' = [it |-> iterator_leaf_start(x), status |-> "running",
                   src |-> x, out |-> <<>>, late |-> FALSE]
        /\ UNCHANGED <<ra, rb, nops, last, cit>>

\* The leaf iterator after a call of next that returned r.
LeafStepped(r) ==
    [it     |-> r.it,
     status |-> IF r.leaf = NodeFail THEN "failed"
                ELSE IF r.leaf = NodeNone THEN "done"
                ELSE "running",
     src    |-> lit.src,
     out    |-> IF r.leaf.tag = "leaf" THEN Append(lit.out, r.leaf)
                ELSE lit.out,
     late   |-> lit.status = "done"]

LeafIterNext ==
    /\ lit.status \in {"running", "done"}
    /\ lit' = LeafStepped(leaf_iterator_next(lit.it))
    /\ UNCHANGED <<ra, rb, nops, last, cit>>

\* node::flatten on the tree of a rope held; res is the node returned.
Flatten ==
    \E x \in Held \ {empty} :
        Observe([x |-> x, op |-> "flatten", res |-> empty], flatten(x.node))

\* The vectors of ropes handed to concat: of every length up to
\* MaxConcatLen, each element a rope held or the Empty rope.
RopeVecs == UNION {[1..k -> Held \cup {empty}] : k \in 0..MaxConcatLen}

Concat ==
    \E v \in RopeVecs :
        Observe([v |-> v, op |-> "concat", res |-> empty], concat(v))

\* char_at on a rope held, at every position of it and one past the last.
CharAt ==
    \E x \in Held : \E pos \in 0..char_len(x) :
        Observe([x |-> x, pos |-> pos, op |-> "char_at", res |-> empty],
                char_at(x, pos))

\* of_substr on any string and any two uints near its length or near the
\* largest uint, in range or not; the rope returned is not kept.
UintsNear(k) == (0..(k + 1)) \cup {Pow2(UintBits) - 2, Pow2(UintBits) - 1}

OfSubstrAny ==
    \E s \in Strings : \E off \in UintsNear(len(s)), n \in UintsNear(len(s)) :
        Observe([n |-> n, s |-> s, op |-> "of_substr_any", res |-> empty,
                 off |-> off],
                of_substr(s, off, n))

\* The ranges handed to sub_chars and sub_bytes unchecked: the empty range
\* at every offset up to one past the end, and the ranges that end past
\* the end of a rope of k characters or bytes.
RangesOutside(k) ==
    {rg \in (0..(k + 1)) \X (0..(k + 1)) : rg[2] = 0 \/ rg[1] + rg[2] > k}

SubCharsAny ==
    \E rg \in RangesOutside(char_len(ra)) :
        Observe([n |-> rg[2], x |-> ra, op |-> "sub_chars_any", res |-> empty,
                 off |-> rg[1]],
                sub_chars(ra, rg[1], rg[2]))

SubBytesAny ==
    \E rg \in RangesOutside(byte_len(ra)) :
        Observe([n |-> rg[2], x |-> ra, op |-> "sub_bytes_any", res |-> empty,
                 off |-> rg[1]],
                sub_bytes(ra, rg[1], rg[2]))

\* loop_chars on a rope held, with a callback that answers true k times.
LoopChars ==
    \E x \in Held : \E k \in 0..char_len(x) :
        Observe([n |-> k, x |-> x, op |-> "loop_chars", res |-> empty],
                loop_chars(x, [calls |-> <<>>, quota |-> k, ret |-> "true"]))

Next ==
    \/ OfStr(MaxOps)
    \/ OfSubstr(MaxOps)
    \/ AppendRope(MaxOps)
    \/ AppendStr(MaxOps)
    \/ PrependStr(MaxOps)
    \/ SubChars(MaxOps)
    \/ SubBytes(MaxOps)
    \/ Bal(MaxOps)
    \/ Cmp
    \/ Append3

Spec == Init /\ [][Next]_vars

\* Longer runs of the calls that grow and rebalance a rope.
NextDeep ==
    \/ OfStr(MaxDeepOps)
    \/ AppendStr(MaxDeepOps)
    \/ AppendRope(MaxDeepOps)
    \/ Bal(MaxDeepOps)

SpecDeep == Init /\ [][NextDeep]_vars

\* Ropes adopted, appended and cut by bytes, then compared.
NextCmp ==
    \/ OfStr(MaxCmpOps)
    \/ AppendRope(MaxCmpOps)
    \/ SubBytes(MaxCmpOps)
    \/ Cmp

SpecCmp == Init /\ [][NextCmp]_vars

\* The calls that return a rope, then a char iterator run over one of them.
NextIter ==
    \/ OfStr(MaxOps)
    \/ OfSubstr(MaxOps)
    \/ AppendRope(MaxOps)
    \/ SubChars(MaxOps)
    \/ SubBytes(MaxOps)
    \/ Bal(MaxOps)
    \/ CharIterStart
    \/ CharIterNext

SpecIter == Init /\ [][NextIter]_vars

(***************************************************************************)
\* Ropes adopted and appended, then a vector of them concatenated.
NextConcat ==
    \/ OfStr(MaxOps)
    \/ AppendRope(MaxOps)
    \/ Concat

SpecConcat == Init /\ [][NextConcat]_vars

\* Ropes adopted, appended and cut, then read by position.
NextChars ==
    \/ OfStr(MaxOps)
    \/ OfSubstr(MaxOps)
    \/ AppendRope(MaxOps)
    \/ SubChars(MaxOps)
    \/ CharAt
    \/ LoopChars

SpecChars == Init /\ [][NextChars]_vars

\* Texts adopted, and of_substr called on any range.
NextOfSubstr ==
    \/ OfStr(MaxOps)
    \/ OfSubstrAny

SpecOfSubstr == Init /\ [][NextOfSubstr]_vars

\* Ropes adopted, appended and cut, then cut again on any range.
NextSub ==
    \/ OfStr(MaxOps)
    \/ AppendRope(MaxOps)
    \/ SubChars(MaxOps)
    \/ SubCharsAny
    \/ SubBytesAny

SpecSub == Init /\ [][NextSub]_vars

\* Ropes adopted, appended and cut, then a leaf iterator run over one of
\* them.
NextLeaves ==
    \/ OfStr(MaxCmpOps)
    \/ AppendRope(MaxCmpOps)
    \/ SubChars(MaxCmpOps)
    \/ LeafIterStart
    \/ LeafIterNext

SpecLeaves == Init /\ [][NextLeaves]_vars

\* Ropes adopted, appended and cut, then the tree of one of them flattened.
NextFlatten ==
    \/ OfStr(MaxCmpOps)
    \/ AppendRope(MaxCmpOps)
    \/ SubChars(MaxCmpOps)
    \/ Flatten

SpecFlatten == Init /\ [][NextFlatten]_vars

(* What the properties speak of.  The text of a rope is rope_to_string of  *)
(* it; a rope is well formed when every leaf is a slice of its buffer on   *)
(* character boundaries with its count of characters, and every concat     *)
(* caches the sums of its children.                                        *)
(***************************************************************************)
RECURSIVE node_ok(_)
node_ok(n) ==
    IF n.tag = "leaf"
    THEN /\ n.byte_offset + n.byte_len <= len(n.content)
         /\ count_chars(n.content, n.byte_offset, n.byte_offset + n.byte_len)
                = n.char_len
    ELSE /\ node_ok(n.left)
         /\ node_ok(n.right)
         /\ n.char_len = node_char_len(n.left) + node_char_len(n.right)
         /\ n.byte_len = node_byte_len(n.left) + node_byte_len(n.right)

WellFormed(r) == r.tag = "empty" \/ (r.tag = "content" /\ node_ok(r.node))

\* The bytes of a string, without its terminator slot.
bytes_of(s) == SubSeq(s, 1, len(s))

\* The text of a rope as bytes and as code points.
TextBytes(r) == bytes_of(rope_to_string(r))

TextChars(r) == chars_of(rope_to_string(r))

\* C1: for every string s adopted (empty, of one leaf, or long enough to be
\* split into several leaves), of_str(s) returns a rope and the slices of
\* its leaves, concatenated left to right, are exactly s.
C1_RoundTrip ==
    last.op = "of_str" =>
        last.res # RootFail /\ rope_to_string(last.res) = last.s

\* of_str has split a text into three leaves and the text reads back.
C1_Witness ==
    /\ last.op = "of_str"
    /\ height(last.res) >= 2
    /\ rope_to_string(last.res) = last.s

\* C2: for every well-formed rope r and every range of char_len > 0
\* characters within it, sub_chars returns a rope whose text is the
\* characters char_offset .. char_offset + char_len of the text of r.
C2_SubChars ==
    (last.op = "sub_chars" /\ last.n > 0 /\ WellFormed(last.x)) =>
        /\ last.res # RootFail
        /\ rope_to_string(last.res) # StrFail
        /\ TextChars(last.res)
              = SubSeq(TextChars(last.x), last.off + 1, last.off + last.n)

\* C3: for every well-formed rope r and every range of byte_len > 0 bytes
\* on character boundaries within it, sub_bytes returns a rope whose text
\* is the bytes byte_offset .. byte_offset + byte_len of the text of r.
C3_SubBytes ==
    (last.op = "sub_bytes" /\ last.n > 0 /\ WellFormed(last.x)) =>
        /\ last.res # RootFail
        /\ rope_to_string(last.res) # StrFail
        /\ TextBytes(last.res)
              = SubSeq(TextBytes(last.x), last.off + 1, last.off + last.n)

\* C4: for every well-formed rope r, bal returns a rope with the text and
\* the char_len of r.
C4_BalPreserves ==
    (last.op = "bal" /\ WellFormed(last.x)) =>
        /\ last.res # RootFail
        /\ rope_to_string(last.res) = rope_to_string(last.x)
        /\ char_len(last.res) = char_len(last.x)

\* The lexicographic order of two sequences of code points: -1, 0 or 1, a
\* proper prefix being smaller.
RECURSIVE lex_order(_, _)
lex_order(u, v) ==
    IF u = <<>> /\ v = <<>> THEN 0
    ELSE IF u = <<>> THEN -1
    ELSE IF v = <<>> THEN 1
    ELSE IF Head(u) < Head(v) THEN -1
    ELSE IF Head(u) > Head(v) THEN 1
    ELSE lex_order(Tail(u), Tail(v))

Sign(n) == IF n < 0 THEN -1 ELSE IF n > 0 THEN 1 ELSE 0

Readable(r) == rope_to_string(r) # StrFail

\* C5: for all ropes a and b, cmp(a, b) returns; and where both texts can
\* be read it returns 0, and eq(a, b) is true, exactly when the text of a
\* is the text of b.
C5_CmpZeroIffEqual ==
    last.op = "cmp" =>
        /\ last.res # CmpFail
        /\ (Readable(last.x) /\ Readable(last.y)) =>
              /\ IsZero(last.res) <=> (TextBytes(last.x) = TextBytes(last.y))
              /\ eq(last.x, last.y) <=> (TextBytes(last.x) = TextBytes(last.y))

\* What cmp does where both texts can be read: there it returns 0 exactly
\* when the texts are equal.
CmpZeroIffEqualOnReadable ==
    (last.op = "cmp" /\ Readable(last.x) /\ Readable(last.y)) =>
        /\ last.res # CmpFail
        /\ IsZero(last.res) <=> (TextBytes(last.x) = TextBytes(last.y))

\* The order of the texts of x and y, as cmp numbers it.
TextOrder(x, y) == lex_order(TextChars(x), TextChars(y))

\* C6: for all ropes a and b, cmp(a, b) and cmp(b, a) return, with
\* opposite signs; and where both texts can be read, the sign of cmp(a, b)
\* is the lexicographic order of their code points, a proper prefix being
\* smaller, and le, lt, ge, gt agree with that order.
C6_CmpLexOrder ==
    last.op = "cmp" =>
        /\ last.res # CmpFail
        /\ cmp(last.y, last.x) # CmpFail
        /\ Sign(cmp(last.y, last.x).val) = 0 - Sign(last.res.val)
        /\ (Readable(last.x) /\ Readable(last.y)) =>
              /\ Sign(last.res.val) = TextOrder(last.x, last.y)
              /\ le(last.x, last.y) <=> (TextOrder(last.x, last.y) <= 0)
              /\ lt(last.x, last.y) <=> (TextOrder(last.x, last.y) < 0)
              /\ ge(last.x, last.y) <=> (TextOrder(last.x, last.y) >= 0)
              /\ gt(last.x, last.y) <=> (TextOrder(last.x, last.y) > 0)

\* What cmp does where both texts can be read: its sign is the order of
\* the texts.
CmpLexOrderOnReadable ==
    (last.op = "cmp" /\ Readable(last.x) /\ Readable(last.y)) =>
        /\ last.res # CmpFail
        /\ Sign(last.res.val) = TextOrder(last.x, last.y)

\* C7: when a char iterator started on a rope has run until next returned
\* none, the rope's char_len is the number of characters it returned and
\* the rope's byte_len is the number of bytes of their UTF-8 encodings.
C7_Lengths ==
    cit.status = "done" =>
        /\ char_len(cit.src) = Len(cit.out)
        /\ byte_len(cit.src) = Len(utf8_bytes(cit.out))

IsPrefix(u, v) == Len(u) <= Len(v) /\ SubSeq(v, 1, Len(u)) = u

\* C8: a char iterator on of_str(s) never aborts; as long as every call of
\* next has returned a character, the characters returned are the first
\* code points of s, in order; and once next has returned none they are
\* all of s, also after further calls.
C8_CharsInOrder ==
    (cit # Idle /\ last.op = "of_str" /\ cit.src = last.res) =>
        /\ cit.status # "failed"
        /\ IsPrefix(cit.out, chars_of(last.s))
        /\ cit.status = "done" => cit.out = chars_of(last.s)

\* The iterator has returned every character of a text of three leaves,
\* then none.
C8_Witness ==
    /\ cit # Idle
    /\ last.op = "of_str"
    /\ cit.src = last.res
    /\ cit.status = "done"
    /\ height(cit.src) >= 2
    /\ cit.out = chars_of(last.s)

\* The iterator on the empty rope has returned none at once.
C8_WitnessEmpty ==
    /\ cit # Idle
    /\ last.op = "of_str"
    /\ cit.src = empty
    /\ cit.status = "done"

\* Two texts one after the other, aborting when reading either aborts.
TextCat(s, t) == IF s = StrFail \/ t = StrFail THEN StrFail ELSE bytes_of(s) \o t

\* C9: for all ropes a, b, c the two groupings of append_rope give ropes of
\* the same text, which is the text of a, then of b, then of c.
C9_AppendAssociative ==
    last.op = "append3" =>
        /\ rope_to_string(last.res[1]) = rope_to_string(last.res[2])
        /\ rope_to_string(last.res[1])
              = TextCat(rope_to_string(last.a),
                        TextCat(rope_to_string(last.b), rope_to_string(last.c)))

\* Three ropes with text, the first appended to itself, and two trees of
\* different shape.
C9_Witness ==
    /\ last.op = "append3"
    /\ last.a # empty /\ last.c # empty
    /\ last.a = last.b
    /\ last.res[1] # last.res[2]
    /\ Readable(last.res[1])
    /\ rope_to_string(last.res[1]) = rope_to_string(last.res[2])

\* C10: append_rope(Empty, r) is r, append_rope(r, Empty) is r, and only
\* two Content arguments give a new Concat, of their two nodes.
C10_EmptyIdentity ==
    last.op = "append_rope" =>
        /\ last.x = empty => last.res = last.y
        /\ last.y = empty => last.res = last.x
        /\ (last.x # empty /\ last.y # empty) =>
              /\ last.res.tag = "content"
              /\ last.res.node.tag = "concat"
              /\ last.res.node.left = last.x.node
              /\ last.res.node.right = last.y.node
        /\ (last.res # last.x /\ last.res # last.y) =>
              (last.x # empty /\ last.y # empty)

\* append_rope has returned its Content argument for an Empty one.
C10_Witness ==
    /\ last.op = "append_rope"
    /\ last.x = empty
    /\ last.y # empty
    /\ last.res = last.y

\* The texts of the ropes of a vector one after the other, in the order of
\* the vector.
RECURSIVE TextCatAll(_)
TextCatAll(v) ==
    IF v = <<>> THEN <<0>>
    ELSE TextCat(rope_to_string(Head(v)), TextCatAll(Tail(v)))

\* The ropes of a vector appended one by one, from the left.
RECURSIVE append_all(_, _)
append_all(acc, v) ==
    IF v = <<>> THEN acc ELSE append_all(append_rope(acc, Head(v)), Tail(v))

RECURSIVE rebuild_from(_, _, _)
rebuild_from(r, i, acc) ==
    IF acc = RootFail \/ i >= char_len(r) THEN acc
    ELSE IF char_at(r, i) < 0 THEN RootFail
    ELSE rebuild_from(r, i + 1, append_char(acc, char_at(r, i)))

\* C12: for every well-formed rope r with text and every pos < char_len(r),
\* char_at(r, pos) returns the character number pos of the text of r,
\* counted in characters from 0, also in leaves at a non-zero byte_offset
\* and in texts of several bytes per character; and the rope rebuilt by
\* appending char_at(r, i) for every i is eq to r.
C12_CharAt ==
    (last.op = "char_at" /\ last.pos < char_len(last.x)
        /\ WellFormed(last.x) /\ Readable(last.x)) =>
        /\ last.res = TextChars(last.x)[last.pos + 1]
        /\ rebuild_from(last.x, 0, empty) # RootFail
        /\ eq(last.x, rebuild_from(last.x, 0, empty))

\* The bytes off .. off + n of a string, as a string.
Substr(s, off, n) == Append(SubSeq(s, off + 1, off + n), 0)

\* C13: for every string s and every range of byte_len > 0 bytes of it
\* that starts and ends on character boundaries, at byte_offset 0 or
\* not, of_substr returns a rope whose text is those bytes and whose
\* char_len is the number of characters in them.
C13_OfSubstr ==
    (last.op = "of_substr" /\ last.n > 0) =>
        /\ last.res # RootFail
        /\ rope_to_string(last.res) = Substr(last.s, last.off, last.n)
        /\ char_len(last.res) = Len(chars_of(Substr(last.s, last.off, last.n)))

C14_WitnessWrap ==
    /\ last.op = "of_substr_any"
    /\ last.n > 0
    /\ uint_add(last.off, last.n) <= len(last.s)
    /\ last.off + last.n > len(last.s)
    /\ last.res = RootFail

\* C15: every call of sub_chars on a well-formed rope r with char_len > 0
\* and char_offset + char_len > char_len(r), and every call of sub_bytes
\* with byte_len > 0 and byte_offset + byte_len > byte_len(r), aborts and
\* returns no rope.  (The empty range is left to C16.)
C15_SubFailsOutside ==
    /\ (last.op = "sub_chars_any" /\ last.n > 0 /\ WellFormed(last.x)
            /\ last.off + last.n > char_len(last.x)) => last.res = RootFail
    /\ (last.op = "sub_bytes_any" /\ last.n > 0 /\ WellFormed(last.x)
            /\ last.off + last.n > byte_len(last.x)) => last.res = RootFail

\* The part of C15 on sub_chars alone.
SubCharsFailsOutside ==
    (last.op = "sub_chars_any" /\ last.n > 0 /\ WellFormed(last.x)
        /\ last.off + last.n > char_len(last.x)) => last.res = RootFail

C16_WitnessEmpty ==
    /\ last.op = "sub_bytes_any"
    /\ last.n = 0
    /\ last.x = empty
    /\ last.res = empty

\* C17: for every rope r, bal(r) returns a rope and its height is at most
\* the height of r.
C17_BalHeight ==
    last.op = "bal" =>
        /\ last.res # RootFail
        /\ height(last.res) <= height(last.x)

\* What bal does where it returns: the rope returned is no higher than r.
BalHeightWhereReturned ==
    (last.op = "bal" /\ last.res # RootFail) =>
        height(last.res) <= height(last.x)

\* C18: for every rope r, bal(r) returns a rope of height below
\* hint_max_node_height.
C18_BalBelowHint ==
    last.op = "bal" =>
        /\ last.res # RootFail
        /\ height(last.res) < hint_max_node_height

\* C19: for every rope r of height below hint_max_node_height, and for
\* Empty, node::bal returns none and bal returns r itself; bal returns
\* another rope only when the height of r is at least hint_max_node_height.
C19_BalNoOpBelowHint ==
    last.op = "bal" =>
        /\ height(last.x) < hint_max_node_height => last.res = last.x
        /\ (last.x # empty /\ height(last.x) < hint_max_node_height) =>
              node_bal(last.x.node) = NodeNone
        /\ last.res # last.x => height(last.x) >= hint_max_node_height

\* bal has returned a rope of two leaves or more, one level below the hint,
\* as it was.
C19_Witness ==
    /\ last.op = "bal"
    /\ height(last.x) >= 1
    /\ height(last.x) < hint_max_node_height
    /\ node_bal(last.x.node) = NodeNone
    /\ last.res = last.x

\* bal has returned another rope for a rope at least as high as the hint.
C19_WitnessRebuilt ==
    /\ last.op = "bal"
    /\ height(last.x) >= hint_max_node_height
    /\ last.res # RootFail
    /\ last.res # last.x

\* C20: for every well-formed rope r with a readable text and every
\* callback that answers true a number of times and then false,
\* loop_chars calls it on the characters of the text of r in order, each
\* once, up to and including the call answered false and not after it, and
\* returns true exactly when the callback never answered false; also when
\* leaves start at a non-zero byte_offset.
C20_LoopChars ==
    (last.op = "loop_chars" /\ WellFormed(last.x) /\ Readable(last.x)) =>
        /\ last.res.calls
              = SubSeq(TextChars(last.x), 1,
                       IF last.n < char_len(last.x) THEN last.n + 1
                       ELSE char_len(last.x))
        /\ last.res.ret = IF last.n < char_len(last.x) THEN "false" ELSE "true"

\* C22: every rope returned by of_str, of_substr, append_rope, append_str,
\* prepend_str, sub_chars, sub_bytes or bal is Empty or a Content of at
\* least one character and at least one byte.
C22_ContentNotEmpty ==
    \A r \in Held :
        r = empty \/ (r.tag = "content" /\ char_len(r) > 0 /\ byte_len(r) > 0)

\* The longest path from a node to a leaf, and the sums of the lengths of
\* its leaves, computed from the tree and not from the caches.
RECURSIVE path_height(_)
path_height(n) ==
    IF n.tag = "leaf" THEN 0 ELSE 1 + max(path_height(n.left), path_height(n.right))

RECURSIVE leaf_chars(_)
leaf_chars(n) ==
    IF n.tag = "leaf" THEN n.char_len ELSE leaf_chars(n.left) + leaf_chars(n.right)

RECURSIVE leaf_bytes(_)
leaf_bytes(n) ==
    IF n.tag = "leaf" THEN n.byte_len ELSE leaf_bytes(n.left) + leaf_bytes(n.right)

RECURSIVE caches_ok(_)
caches_ok(n) ==
    \/ n.tag = "leaf"
    \/ /\ n.char_len = node_char_len(n.left) + node_char_len(n.right)
       /\ n.byte_len = node_byte_len(n.left) + node_byte_len(n.right)
       /\ n.height = 1 + max(node_height(n.left), node_height(n.right))
       /\ caches_ok(n.left)
       /\ caches_ok(n.right)

RECURSIVE leaves_ok(_)
leaves_ok(n) ==
    IF n.tag = "leaf"
    THEN /\ n.byte_offset + n.byte_len <= len(n.content)
         /\ count_chars(n.content, n.byte_offset, n.byte_offset + n.byte_len)
                = n.char_len
    ELSE leaves_ok(n.left) /\ leaves_ok(n.right)

\* C24: in every rope held after any sequence of calls on the texts and on
\* ranges within them, every leaf is a slice within its buffer, on
\* character boundaries, and its char_len is the number of characters
\* encoded in the slice.
C24_LeafInvariant ==
    \A r \in Held : r.tag = "content" => leaves_ok(r.node)

\* The leaves of a tree from left to right.
RECURSIVE leaves_of(_)
leaves_of(n) ==
    IF n.tag = "leaf" THEN <<n>> ELSE leaves_of(n.left) \o leaves_of(n.right)

\* The least h with 2^h >= k.
RECURSIVE ceil_log2(_)
ceil_log2(k) == IF k <= 1 THEN 0 ELSE 1 + ceil_log2(div_ceil(k, 2))

\* The tree t is the chunking of the bytes off .. off + n of the string s,
\* which hold chars characters.
Chunked(t, s, off, n, chars) ==
    /\ Len(leaves_of(t))
          = IF chars <= hint_max_leaf_char_len THEN 1
            ELSE div_ceil(chars, hint_max_leaf_char_len)
    /\ leaves_of(t)[1].byte_offset = off
    /\ leaves_of(t)[Len(leaves_of(t))].byte_offset
          + leaves_of(t)[Len(leaves_of(t))].byte_len = off + n
    /\ \A i \in 1..Len(leaves_of(t)) :
          /\ leaves_of(t)[i].content = s
          /\ leaves_of(t)[i].char_len \in 1..hint_max_leaf_char_len
          /\ i > 1 => leaves_of(t)[i].char_len = hint_max_leaf_char_len
          /\ i > 1 => leaves_of(t)[i].byte_offset
                        = leaves_of(t)[i - 1].byte_offset
                          + leaves_of(t)[i - 1].byte_len
          /\ count_chars(s, leaves_of(t)[i].byte_offset,
                         leaves_of(t)[i].byte_offset + leaves_of(t)[i].byte_len)
                = leaves_of(t)[i].char_len
    /\ node_height(t) = ceil_log2(Len(leaves_of(t)))

\* C25: for a range of n > 0 characters of a string, at byte_offset 0 or
\* not, of_substr returns one leaf when n <= hint_max_leaf_char_len, and
\* otherwise ceil(n / hint_max_leaf_char_len) leaves over the string that
\* follow one another from the start of the range to its end, each of 1
\* to hint_max_leaf_char_len characters and only the first of fewer,
\* folded into a tree of height ceil(log2(number of leaves)).
C25_Chunking ==
    /\ (last.op = "of_str" /\ len(last.s) > 0) =>
            /\ last.res.tag = "content"
            /\ Chunked(last.res.node, last.s, 0, len(last.s),
                       Len(chars_of(last.s)))
    /\ (last.op = "of_substr" /\ last.n > 0) =>
            /\ last.res.tag = "content"
            /\ Chunked(last.res.node, last.s, last.off, last.n,
                       Len(chars_of(Substr(last.s, last.off, last.n))))

\* What of_str does, the range being the whole string from byte 0.
ChunkingOfStr ==
    (last.op = "of_str" /\ len(last.s) > 0) =>
        /\ last.res.tag = "content"
        /\ Chunked(last.res.node, last.s, 0, len(last.s), Len(chars_of(last.s)))

\* The leaves of the tree of a rope, from left to right.
LeavesOfRope(r) == IF r.tag = "empty" THEN <<>> ELSE leaves_of(r.node)

\* What a leaf iterator has returned so far, against the leaves of its rope.
LeafIterInOrder ==
    lit # Idle =>
        /\ lit.status # "failed"
        /\ IsPrefix(lit.out, LeavesOfRope(lit.src))
        /\ lit.status = "done" => lit.out = LeavesOfRope(lit.src)
        /\ (lit.src = empty /\ lit.out = <<>> /\ lit.status = "running") =>
               leaf_iterator_next(lit.it).leaf = NodeNone

\* A call of next on an iterator that has returned none.
LeafIterStaysDone ==
    (lit # Idle /\ lit.status = "done") =>
        /\ lit'.status = "done"
        /\ lit'.it = lit.it
        /\ lit'.out = lit.out

\* C26: a leaf iterator started on a rope returns the leaves of its tree
\* from left to right, each once, and then none; what it has returned so
\* far is always a prefix of them, and once it has returned none a later
\* call of next returns none again and leaves stack and stackpos as they
\* were; started on the Empty rope it returns none at the first call.
C26_LeafIterator == [](LeafIterInOrder) /\ [][LeafIterStaysDone]_vars

C26_Witness ==
    /\ lit # Idle
    /\ lit.status = "done"
    /\ lit.late
    /\ height(lit.src) >= 2
    /\ Len(lit.out) >= 3

C26_WitnessEmpty ==
    /\ lit # Idle
    /\ lit.src = empty
    /\ lit.status = "done"

\* C27: while a leaf iterator runs over a rope, whatever the shape of its
\* tree, stackpos stays between -1 and the height of the root, the stack
\* keeps the height + 1 slots start allocated, and no call of next reads or
\* writes the stack outside them.
C27_StackBound ==
    (lit # Idle /\ lit.src # empty) =>
        /\ lit.status # "failed"
        /\ lit.it.stackpos >= -1
        /\ lit.it.stackpos <= height(lit.src)
        /\ Len(lit.it.stack) = height(lit.src) + 1

\* A tree every right child of which is a leaf, as deep as a left child goes.
RECURSIVE left_deep(_)
left_deep(n) ==
    n.tag = "leaf" \/ (n.right.tag = "leaf" /\ left_deep(n.left))

RECURSIVE right_deep(_)
right_deep(n) ==
    n.tag = "leaf" \/ (n.left.tag = "leaf" /\ right_deep(n.right))

\* The first call of next on a left-deep tree has written the last slot of
\* the stack, where it found the leftmost leaf.
C27_Witness ==
    /\ lit # Idle
    /\ lit.src # empty
    /\ height(lit.src) >= 2
    /\ left_deep(lit.src.node)
    /\ Len(lit.out) = 1
    /\ lit.it.stackpos = height(lit.src) - 1
    /\ lit.it.stack[height(lit.src) + 1] = lit.out[1]

\* The iterator has exhausted a right-deep tree.
C27_WitnessRightDeep ==
    /\ lit # Idle
    /\ lit.src # empty
    /\ height(lit.src) >= 2
    /\ right_deep(lit.src.node)
    /\ lit.status = "done"

\* The node n is one leaf at offset 0 of its buffer, with the lengths and
\* the text of the rope r.
FlatLeafOf(n, r) ==
    /\ n.tag = "leaf"
    /\ n.byte_offset = 0
    /\ n.byte_len = byte_len(r)
    /\ n.char_len = char_len(r)
    /\ node_ok(n)
    /\ rope_to_string(content(n)) = rope_to_string(r)

\* C28: for every well-formed tree, flatten returns the node itself when it
\* is a leaf, and otherwise one leaf at byte_offset 0 of a new buffer, with
\* the byte_len and char_len of the tree, whose slice reads the slices of
\* the leaves of the tree from left to right, whatever their byte_offset.
C28_Flatten ==
    (last.op = "flatten" /\ WellFormed(last.x)) =>
        /\ last.res # NodeFail
        /\ last.x.node.tag = "leaf" => last.res = last.x.node
        /\ last.x.node.tag = "concat" => FlatLeafOf(last.res, last.x)

\* flatten of a leaf returns the leaf.
FlattenOfLeaf ==
    (last.op = "flatten" /\ last.x.node.tag = "leaf") =>
        last.res = last.x.node

\* The lengths and the offset of the leaf flatten makes of a Concat, where it
\* returns.
FlattenLengths ==
    (last.op = "flatten" /\ last.x.node.tag = "concat"
        /\ last.res # NodeFail) =>
        /\ last.res.tag = "leaf"
        /\ last.res.byte_offset = 0
        /\ last.res.byte_len = byte_len(last.x)
        /\ last.res.char_len = char_len(last.x)

\* flatten of a well-formed Concat all of whose leaves start at offset 0.
RECURSIVE at_offset_zero(_)
at_offset_zero(n) ==
    IF n.tag = "leaf" THEN n.byte_offset = 0
    ELSE at_offset_zero(n.left) /\ at_offset_zero(n.right)

FlattenAtOffsetZero ==
    (last.op = "flatten" /\ WellFormed(last.x)
        /\ last.x.node.tag = "concat" /\ at_offset_zero(last.x.node)) =>
        /\ last.res # NodeFail
        /\ SubSeq(last.res.content, 1, last.res.byte_len) = TextBytes(last.x)

\* Every Concat of the tree n has both children lower than h.
RECURSIVE children_below(_, _)
children_below(n, h) ==
    \/ n.tag = "leaf"
    \/ /\ node_height(n.left) < h
       /\ node_height(n.right) < h
       /\ children_below(n.left, h)
       /\ children_below(n.right, h)

\* C29: when bal folds the leaves of a rope of height at least
\* hint_max_node_height, the fold returns a tree, and no Concat of it has a
\* child of height hint_max_node_height or more: an operand that high is
\* replaced by a node of height 0 before concat2 is applied.
C29_HeightReset ==
    (last.op = "bal" /\ height(last.x) >= hint_max_node_height) =>
        /\ last.res # RootFail
        /\ children_below(last.res.node, hint_max_node_height)

\* What the fold does where it returns.
HeightResetWhereReturned ==
    (last.op = "bal" /\ height(last.x) >= hint_max_node_height
        /\ last.res # RootFail) =>
        children_below(last.res.node, hint_max_node_height)

\* The lowering step of the fold never returns a node for a tree held that
\* has reached the hint (and whose byte_len fits a uint).
LoweringAborts ==
    \A r \in Held :
        (r # empty /\ height(r) >= hint_max_node_height
            /\ byte_len(r) < Pow2(UintBits)) =>
            forest_lower(r.node, char_len(r)) = NodeFail

(***************************************************************************)
(* The run of node::sub_chars (bytes FALSE) and node::sub_bytes (bytes     *)
(* TRUE) as the sequence of the nodes it looks at, one entry per turn of   *)
(* the loop, the turns of a recursive call following the turn that made    *)
(* it: <<case, length of the node, length asked of the left child, length  *)
(* asked of the right child>>.  Case 0 is a turn that returns (the whole   *)
(* node, or a leaf), cases 1 to 3 are those of the Concat arm; in case 2   *)
(* the call on the right child is made only if the one on the left child   *)
(* has returned.                                                           *)
(***************************************************************************)
len_of(node, bytes) ==
    IF bytes THEN node_byte_len(node) ELSE node_char_len(node)

sub_of(node, offset, n, bytes) ==
    IF bytes THEN node_sub_bytes(node, offset, n)
    ELSE node_sub_chars(node, offset, n)

RECURSIVE sub_turns(_, _, _, _)
sub_turns_concat(node, offset, n, bytes, left_len) ==
    IF offset <= left_len
    THEN IF offset + n <= left_len
         THEN <<<<1, len_of(node, bytes), n, 0>>>>
                \o sub_turns(node.left, offset, n, bytes)
         ELSE <<<<2, len_of(node, bytes), left_len, left_len - offset>>>>
                \o sub_turns(node.left, offset, left_len, bytes)
                \o (IF sub_of(node.left, offset, left_len, bytes) = NodeFail
                    THEN <<>>
                    ELSE sub_turns(node.right, 0, left_len - offset, bytes))
    ELSE <<<<3, len_of(node, bytes), 0, n>>>>
           \o sub_turns(node.right, offset - left_len, n, bytes)

sub_turns(node, offset, n, bytes) ==
    IF (offset = 0 /\ n = len_of(node, bytes)) \/ node.tag = "leaf"
    THEN <<<<0, len_of(node, bytes), 0, 0>>>>
    ELSE sub_turns_concat(node, offset, n, bytes, len_of(node.left, bytes))

\* The number of nodes of a tree.
RECURSIVE node_count(_)
node_count(n) ==
    IF n.tag = "leaf" THEN 1 ELSE 1 + node_count(n.left) + node_count(n.right)

\* The run takes at most one turn per node of the tree.
TurnsBounded(node, offset, n, bytes) ==
    Len(sub_turns(node, offset, n, bytes)) <= node_count(node)

\* Every turn of case 2 asks each child for less than the node holds.
SplitsShrink(turns) ==
    \A k \in 1..Len(turns) :
        turns[k][1] = 2 => (turns[k][3] < turns[k][2] /\ turns[k][4] < turns[k][2])

\* The ranges inside a node of length l: n > 0 and offset + n <= l.
RangesInside(l) == {rg \in (0..l) \X (1..l) : rg[1] + rg[2] <= l}

\* C30: for every tree held and every range inside it, by characters and by
\* bytes, the run of sub_chars and of sub_bytes is finite, one turn per node
\* at most as every turn and every recursive call goes on with a child of
\* the node at hand, and each of the two calls of case 2 asks for a length
\* strictly below the length of the node being split.
C30_SubTerminates ==
    \A r \in Held \ {empty} : \A bytes \in BOOLEAN :
        \A rg \in RangesInside(len_of(r.node, bytes)) :
            /\ TurnsBounded(r.node, rg[1], rg[2], bytes)
            /\ SplitsShrink(sub_turns(r.node, rg[1], rg[2], bytes))

\* The part about termination alone.
SubTurnsBounded ==
    \A r \in Held \ {empty} : \A bytes \in BOOLEAN :
        \A rg \in RangesInside(len_of(r.node, bytes)) :
            TurnsBounded(r.node, rg[1], rg[2], bytes)

\* Every node of the tree holds at least one byte and one character.
RECURSIVE all_positive(_)
all_positive(n) ==
    /\ node_char_len(n) > 0
    /\ node_byte_len(n) > 0
    /\ n.tag = "concat" => (all_positive(n.left) /\ all_positive(n.right))

\* The lengths asked in case 2 on the trees without an empty leaf.
SplitsShrinkWithoutEmptyLeaf ==
    \A r \in Held \ {empty} : \A bytes \in BOOLEAN :
        \A rg \in RangesInside(len_of(r.node, bytes)) :
            all_positive(r.node) =>
                SplitsShrink(sub_turns(r.node, rg[1], rg[2], bytes))

====
